---- MODULE Spec2Model ----
(***************************************************************************)
(* Model of src/spark_dq_framework.py: the SparkDQTesting checker, its     *)
(* six data-quality checks and run_all_tests.                             *)
(***************************************************************************)
EXTENDS Integers, Sequences, FiniteSets, TLC

(***************************************************************************)
(* Python float arithmetic (IEEE-754 binary64, round to nearest, ties to   *)
(* even), as used by check_completeness and lud_density.  A significand   *)
(* is a natural number held in six 13-bit limbs, least significant first   *)
(* (limb 5 has weight 2^52).  A float is [m, e] standing for m * 2^e, with *)
(* 2^52 <= m < 2^53, or m = 0 for 0.0.  The counts of the model are far    *)
(* from the subnormal and overflow ranges, which are not represented.      *)
(***************************************************************************)
LimbBase == 2^13

BigZero == <<0, 0, 0, 0, 0, 0>>

Limbs == Len(BigZero)

\* 0 <= n < 2^26
BigOfInt(n) == <<n % LimbBase, n \div LimbBase, 0, 0, 0, 0>>

BigIsZero(x) == x = BigZero

BigOdd(x) == x[1] % 2 = 1

RECURSIVE BigLessFrom(_, _, _)
BigLessFrom(x, y, i) ==
    IF i = 0 THEN FALSE
    ELSE IF x[i] # y[i] THEN x[i] < y[i]
    ELSE BigLessFrom(x, y, i - 1)

BigLess(x, y) == BigLessFrom(x, y, Limbs)

\* x * k + carry from limb i on, for 0 <= k <= LimbBase
RECURSIVE BigMulFrom(_, _, _, _)
BigMulFrom(x, k, i, carry) ==
    IF i = Limbs THEN <<x[i] * k + carry>>
    ELSE <<(x[i] * k + carry) % LimbBase>>
         \o BigMulFrom(x, k, i + 1, (x[i] * k + carry) \div LimbBase)

BigMulSmall(x, k) == BigMulFrom(x, k, 1, 0)

\* x * 2: each limb doubled, plus the top bit of the limb below
BigDouble(x) ==
    <<(2 * x[1]) % LimbBase,
      (2 * x[2] + (2 * x[1]) \div LimbBase) % LimbBase,
      (2 * x[3] + (2 * x[2]) \div LimbBase) % LimbBase,
      (2 * x[4] + (2 * x[3]) \div LimbBase) % LimbBase,
      (2 * x[5] + (2 * x[4]) \div LimbBase) % LimbBase,
      2 * x[6] + (2 * x[5]) \div LimbBase>>

BigInc(x) == BigMulFrom(x, 1, 1, 1)

BigHalf(x) ==
    <<(x[1] + LimbBase * (x[2] % 2)) \div 2,
      (x[2] + LimbBase * (x[3] % 2)) \div 2,
      (x[3] + LimbBase * (x[4] % 2)) \div 2,
      (x[4] + LimbBase * (x[5] % 2)) \div 2,
      (x[5] + LimbBase * (x[6] % 2)) \div 2,
      x[6] \div 2>>

\* x * 2^13 and x \div 2^13
BigLimbUp(x) == <<0, x[1], x[2], x[3], x[4], x[5] + LimbBase * x[6]>>

BigLimbDown(x) == <<x[2], x[3], x[4], x[5], x[6], 0>>

\* x - y from limb i on with a borrow, for x >= y
RECURSIVE BigSubFrom(_, _, _, _)
BigSubFrom(x, y, i, borrow) ==
    IF i = Limbs THEN <<x[i] - y[i] - borrow>>
    ELSE IF x[i] - y[i] - borrow < 0
    THEN <<x[i] - y[i] - borrow + LimbBase>> \o BigSubFrom(x, y, i + 1, 1)
    ELSE <<x[i] - y[i] - borrow>> \o BigSubFrom(x, y, i + 1, 0)

BigSub(x, y) == BigSubFrom(x, y, 1, 0)

Big2p52 == <<0, 0, 0, 0, 1, 0>>

BigBelow2p52(x) == x[5] = 0 /\ x[6] = 0

BigBelow2p53(x) == x[5] < 2 /\ x[6] = 0

FZero == [m |-> BigZero, e |-> 0]

FIsZero(f) == BigIsZero(f.m)

FNormal(m, e) ==
    IF BigBelow2p53(m) THEN [m |-> m, e |-> e] ELSE [m |-> Big2p52, e |-> e + 1]

\* round the 53-bit significand m (scaled by 2^e) given the first discarded
\* bit and whether any later discarded bit is set: nearest, ties to even
FRound(m, e, rbit, sticky) ==
    IF rbit /\ (sticky \/ BigOdd(m)) THEN FNormal(BigInc(m), e)
    ELSE [m |-> m, e |-> e]

\* shift a significand of 53 bits or more right until it has 53 bits
RECURSIVE FNormRight(_, _, _, _)
FNormRight(p, e, rbit, sticky) ==
    IF BigBelow2p53(p) THEN FRound(p, e, rbit, sticky)
    ELSE FNormRight(BigHalf(p), e + 1, BigOdd(p), sticky \/ rbit)

\* shift a nonzero significand left until it has 53 bits
RECURSIVE FNormLeft(_, _)
FNormLeft(p, e) ==
    IF ~BigBelow2p52(p) THEN [m |-> p, e |-> e]
    ELSE IF p[4] = 0 THEN FNormLeft(BigLimbUp(p), e - 13)
    ELSE FNormLeft(BigDouble(p), e - 1)

\* float(n) for an int 0 <= n < 2^26 (exact)
FOfInt(n) == IF n = 0 THEN FZero ELSE FNormLeft(BigOfInt(n), 0)

\* one base-2^13 digit of long division: the digit q of x / d and the
\* remainder r, for x = r0 * 2^13 with r0 < d and 2^52 <= d < 2^53.  The
\* digit is first estimated from below on the leading limbs, then corrected.
RECURSIVE FDivFix(_, _, _)
FDivFix(q, r, d) ==
    IF BigLess(r, d) THEN [q |-> q, r |-> r]
    ELSE FDivFix(q + 1, BigSub(r, d), d)

FDivEstimate(x, d, qhat) == FDivFix(qhat, BigSub(x, BigMulSmall(d, qhat)), d)

FDivDigit(x, d) ==
    FDivEstimate(x, d, ((x[6] * LimbBase + x[5]) * LimbBase + x[4])
                          \div (d[5] * LimbBase + d[4] + 1))

\* the quotient q (1 and four digits), the doubled last remainder r2
FDivRound(q, r2, d, e) ==
    FRound(q, e, ~BigLess(r2, d), r2 # d /\ r2 # BigZero)

\* the quotient q with the digit of s appended
FDivPush(q, s) == <<s.q, q[1], q[2], q[3], q[4], q[5]>>

\* long division, a digit at a time, until the quotient has 53 bits; s is
\* the digit and remainder last computed, q the quotient before it
RECURSIVE FDivLoop(_, _, _, _)
FDivLoop(q, s, d, e) ==
    IF BigBelow2p52(FDivPush(q, s))
    THEN FDivLoop(FDivPush(q, s), FDivDigit(BigLimbUp(s.r), d), d, e)
    ELSE FDivRound(FDivPush(q, s), BigDouble(s.r), d, e)

\* n * 2^e / d for 53-bit significands d <= n < 2d
FDivFrom(n, d, e) ==
    FDivLoop(BigOfInt(1), FDivDigit(BigLimbUp(BigSub(n, d)), d), d, e - 52)

\* n * 2^e / d for 53-bit significands n, d
FDivAlign(n, d, e, less) ==
    FDivFrom(IF less THEN BigDouble(n) ELSE n, d, IF less THEN e - 1 ELSE e)

\* x / y on floats, y # 0
FDiv(x, y) ==
    IF FIsZero(x) THEN FZero
    ELSE FDivAlign(x.m, y.m, x.e - y.e, BigLess(x.m, y.m))

\* Python's int / int (true division, correctly rounded), d # 0
IntTrueDiv(n, d) == FDiv(FOfInt(n), FOfInt(d))

\* x * k for a float x and an int 0 < k <= LimbBase
FMulInt(x, k) ==
    IF FIsZero(x) THEN FZero
    ELSE FNormRight(BigMulSmall(x.m, k), x.e, FALSE, FALSE)

\* the integer part of p * 2^e, e <= 0, below 2^26
RECURSIVE FFloorShift(_, _)
FFloorShift(p, e) ==
    IF e >= 0 \/ BigIsZero(p) THEN p[1] + LimbBase * p[2]
    ELSE IF e <= -13 THEN FFloorShift(BigLimbDown(p), e + 13)
    ELSE FFloorShift(BigHalf(p), e + 1)

\* Python's int(x): truncation toward zero, for a float 0 <= x < 2^26
FInt(x) == FFloorShift(x.m, x.e)

\* x > k for a float x and an int k >= 0: the integer part decides, and on
\* equal integer parts whether x has a fractional part
FGreaterInt(x, k) == FInt(x) > k \/ (FInt(x) = k /\ x # FOfInt(k))

\* x < y on floats >= 0
FLess(x, y) ==
    IF FIsZero(y) THEN FALSE
    ELSE IF FIsZero(x) THEN TRUE
    ELSE x.e < y.e \/ (x.e = y.e /\ BigLess(x.m, y.m))

\* the float literal 0.4 = 0x1.999999999999ap-2
F0_4 == [m |-> <<6554, 3276, 1638, 4915, 1, 0>>, e |-> -54]

(***************************************************************************)
(* The program state.  A DataFrame is a bag of rows: a function from the   *)
(* distinct rows (functions from column names to cell values) to the       *)
(* number of times each occurs.  Cell values are naturals; NULL is Null.   *)
(* A Python Optional[str] is <<>> for None and <<s>> for the string s.     *)
(***************************************************************************)
VARIABLES
    obj,              \* "none", "constructed", or "failed" (__init__ raised)
    error,            \* the exception class __init__ raised, "" if none
    input,            \* the arguments of __init__ and the table the engine holds
    key_columns,      \* self.key_columns
    lud_column,       \* self.lud_column
    table_columns,    \* self.table_columns
    table_df,         \* self.table_df
    table_count,      \* self.table_count
    testing_results,  \* self.testing_results: check name -> result
    clock,            \* the last reading of datetime.now()
    pc,               \* 0: no call in progress; i in 1..6: run_all_tests is
                      \* about to call test_methods[i]; 7: about to return
    calls,            \* number of public calls made on the object
    returned,         \* the caller holds the dict run_all_tests returned
    raised,           \* per check, the exception its latest execution raised
    last,             \* the check executed most recently, "" if none
    reports           \* the reports as the caller read them at each return

vars == <<obj, error, input, key_columns, lud_column, table_columns, table_df,
          table_count, testing_results, clock, pc, calls, returned, raised,
          last, reports>>

Null == 0

None == <<>>

ColSet(cols) == {cols[i] : i \in DOMAIN cols}

EmptyBag == <<>>

RECURSIVE SumOver(_, _)
SumOver(S, f) ==
    IF S = {} THEN 0
    ELSE LET r == CHOOSE r \in S : TRUE IN f[r] + SumOver(S \ {r}, f)

\* DataFrame.count()
Count(df) == SumOver(DOMAIN df, df)

\* df.where(F.col(column).isNull()).count()
CountNull(df, column) == SumOver({r \in DOMAIN df : r[column] = Null}, df)

Project(r, cols) == [i \in DOMAIN cols |-> r[cols[i]]]

\* df.groupBy(cols).count(): group key -> number of rows; NULL is a key
\* like any other, and groupBy([]) of a non-empty frame is one group
GroupCount(df, cols) ==
    [g \in {Project(r, cols) : r \in DOMAIN df} |->
        SumOver({r \in DOMAIN df : Project(r, cols) = g}, df)]

\* the exception classes the engine's queries raise in the model; str(e)
\* is modelled by the class name
FaultKinds == {"ValueError", "TypeError", "Py4JJavaError"}

NoFault == "none"

\* a reference to a column the frame does not have
AnalysisException == "AnalysisException"

CheckNames == <<"find_duplicates", "find_nulls", "check_completeness",
                "values_range", "key_density", "lud_density">>

NoRaise == [c \in ColSet(CheckNames) |-> NoFault]

\* what one execution of a check does: the result it stores (status and
\* details; <<>> when it stores none), and the exception raised inside it
Stored(status, details) ==
    [res |-> <<[status |-> status, details |-> details]>>, raised |-> NoFault]

Caught(e) ==
    [res |-> <<[status |-> "Error", details |-> e]>>, raised |-> e]

create_test_result(status, details, now) ==
    [status |-> status, timestamp |-> now, details |-> details]

(***************************************************************************)
(* The six checks.  Each is the set of outcomes one execution can have,    *)
(* given the exception `fault` the engine raises from the queries of that  *)
(* execution (NoFault: every query answers).  Only the check's own state   *)
(* of the object is read; a check that issues no query cannot fault.       *)
(***************************************************************************)
KnownKeys == ColSet(key_columns) \subseteq ColSet(table_columns)

\* find_duplicates counting the rows in excess of one per combination
find_duplicates_excess_rows(fault) ==
    IF fault # NoFault THEN {Caught(fault)}
    ELSE IF ~KnownKeys THEN {Caught(AnalysisException)}
    ELSE LET counts == GroupCount(table_df, key_columns)
             duplicates == {g \in DOMAIN counts : counts[g] > 1}
             duplicate_count ==
                 SumOver(duplicates, [g \in duplicates |-> counts[g] - 1])
         IN  {Stored(IF duplicate_count = 0 THEN "Passed" ELSE "Failed",
                     [duplicated_rows_count |-> duplicate_count])}

find_duplicates(fault) ==
    IF fault # NoFault THEN {Caught(fault)}
    ELSE IF ~KnownKeys THEN {Caught(AnalysisException)}
    ELSE LET counts == GroupCount(table_df, key_columns)
             duplicates == {g \in DOMAIN counts : counts[g] > 1}
             duplicate_count == Cardinality(duplicates)
         IN  {Stored(IF duplicate_count = 0 THEN "Passed" ELSE "Failed",
                     [duplicated_rows_count |-> duplicate_count])}

\* find_nulls counting each row with a NULL key once in the total
find_nulls_per_row(fault) ==
    IF key_columns # <<>> /\ fault # NoFault THEN {Caught(fault)}
    ELSE IF ~KnownKeys THEN {Caught(AnalysisException)}
    ELSE LET null_details ==
                 [column \in ColSet(key_columns) |-> CountNull(table_df, column)]
             null_rows == {r \in DOMAIN table_df :
                              \E column \in ColSet(key_columns) : r[column] = Null}
             nulls_sum == SumOver(null_rows, table_df)
         IN  {Stored(IF nulls_sum = 0 THEN "Passed" ELSE "Failed",
                     [total_null_count |-> nulls_sum,
                      nulls_by_column |-> null_details])}

find_nulls(fault) ==
    IF key_columns # <<>> /\ fault # NoFault THEN {Caught(fault)}
    ELSE IF ~KnownKeys THEN {Caught(AnalysisException)}
    ELSE LET null_details ==
                 [column \in ColSet(key_columns) |-> CountNull(table_df, column)]
             nulls_sum == SumOver(DOMAIN null_details, null_details)
         IN  {Stored(IF nulls_sum = 0 THEN "Passed" ELSE "Failed",
                     [total_null_count |-> nulls_sum,
                      nulls_by_column |-> null_details])}

NullThreshold == 5

Percent == 100

non_key_columns == ColSet(table_columns) \ ColSet(key_columns)

\* (count / self.table_count) * 100, in floats
null_percentage(column) ==
    FMulInt(IntTrueDiv(CountNull(table_df, column), table_count), Percent)

check_completeness(fault) ==
    IF non_key_columns = {}
    THEN {Stored("Skipped", "Every column is a key column")}
    ELSE IF fault # NoFault THEN {Caught(fault)}
    ELSE IF table_count = 0 THEN {Caught("ZeroDivisionError")}
    ELSE LET null_details ==
                 [column \in non_key_columns |->
                     <<FInt(null_percentage(column)), "%">>]
             failed == \E column \in non_key_columns :
                          FGreaterInt(null_percentage(column), NullThreshold)
         IN  {Stored(IF failed THEN "Failed" ELSE "Passed",
                     [nulls_percentage_by_column |-> null_details])}

\* columns of string type: float(max) raises ValueError on their values
StringColumns == {"s"}

NonNull(column) == {r \in DOMAIN table_df : r[column] # Null}

SetMax(S) == CHOOSE m \in S : \A y \in S : y <= m

SetMin(S) == CHOOSE m \in S : \A y \in S : m <= y

\* float(stats['max']) succeeds: the column is numeric and has a value
IsNumeric(column) == column \notin StringColumns /\ NonNull(column) # {}

ColumnStats(column) ==
    LET rows == NonNull(column)
        vals == {r[column] : r \in rows}
        n    == SumOver(rows, table_df)
        sum  == SumOver(rows, [r \in rows |-> r[column] * table_df[r]])
    IN  [max |-> SetMax(vals), min |-> SetMin(vals), avg |-> IntTrueDiv(sum, n)]

values_range(fault) ==
    IF non_key_columns = {}
    THEN {Stored("Passed", [values_range_details |-> <<>>])}
    ELSE IF fault \in {"ValueError", "TypeError"}
    THEN \* raised inside the per-column try: every column is skipped
         {[res |-> <<[status |-> "Passed",
                      details |-> [values_range_details |-> <<>>]]>>,
           raised |-> fault]}
    ELSE IF fault # NoFault THEN {Caught(fault)}
    ELSE LET numeric == {column \in non_key_columns : IsNumeric(column)}
         IN  {Stored("Passed",
                     [values_range_details |->
                         [column \in numeric |-> ColumnStats(column)]])}

\* the max/min/avg/distinct statistics of df.groupBy(column).count(), with
\* the representative values .first() returns: any group with that count
DensityDetails(column) ==
    LET counts == GroupCount(table_df, <<column>>)
        groups == DOMAIN counts
        cs     == {counts[g] : g \in groups}
        mx     == SetMax(cs)
        mn     == SetMin(cs)
        avg    == IntTrueDiv(SumOver(groups, counts), Cardinality(groups))
    IN  {[max_count |-> [value |-> gmax[1], count |-> mx],
          min_count |-> [value |-> gmin[1], count |-> mn],
          avg_count |-> avg,
          distinct_values |-> Cardinality(groups)] :
            gmax \in {g \in groups : counts[g] = mx},
            gmin \in {g \in groups : counts[g] = mn}}

key_density(fault) ==
    IF key_columns = <<>>
    THEN {Stored("Passed", [key_density_details |-> <<>>])}
    ELSE IF fault # NoFault THEN {Caught(fault)}
    ELSE IF ~KnownKeys THEN {Caught(AnalysisException)}
    ELSE LET keys == ColSet(key_columns)
             total == Count(table_df)
             one(column) == {d @@ [total_records |-> total] :
                                d \in DensityDetails(column)}
             all == {f \in [keys -> UNION {one(column) : column \in keys}] :
                        \A column \in keys : f[column] \in one(column)}
         IN  {Stored("Passed", [key_density_details |-> f]) : f \in all}

LudWindow == 7

\* value_counts.orderBy(F.col(lud_column).desc()).collect(): the group keys,
\* greatest first (NULL, the least cell value, comes last)
RECURSIVE OrderDesc(_)
OrderDesc(S) ==
    IF S = {} THEN <<>>
    ELSE LET m == SetMax(S) IN <<m>> \o OrderDesc(S \ {m})

RECURSIVE SeqSum(_)
SeqSum(q) == IF q = <<>> THEN 0 ELSE Head(q) + SeqSum(Tail(q))

\* the moving_average entry of the details, from the counts and the dates
\* in descending date order
moving_average(ordered_counts, ordered_dates) ==
    IF Len(ordered_counts) >= LudWindow
    THEN LET last_luds == SubSeq(ordered_counts, 2, LudWindow)
             last_luds_avg == IntTrueDiv(SeqSum(last_luds), Len(last_luds))
             current_count == ordered_counts[1]
             ratio == IF ~FIsZero(last_luds_avg)
                      THEN FDiv(FOfInt(current_count), last_luds_avg)
                      ELSE FZero
         IN  [last_luds_avg |-> last_luds_avg,
              current_count |-> current_count,
              ratio_to_average |-> ratio,
              below_acceptable_average |-> FLess(ratio, F0_4),
              dates_analyzed |->
                  [current_date |-> ordered_dates[1],
                   analyzed_dates |-> SubSeq(ordered_dates, 2, LudWindow)]]
    ELSE [error |-> "Insufficient data for moving average calculation"]

\* the flag read with the default False
BelowAcceptableDefaultFalse(ma) ==
    IF "below_acceptable_average" \in DOMAIN ma
    THEN ma.below_acceptable_average ELSE FALSE

\* moving_average.get('below_acceptable_average', True)
BelowAcceptable(ma) ==
    IF "below_acceptable_average" \in DOMAIN ma
    THEN ma.below_acceptable_average ELSE TRUE

\* the body of lud_density's try block, on the column named by lud_column
lud_statistics(fault) ==
    IF fault # NoFault THEN {Caught(fault)}
    ELSE IF lud_column = None \/ lud_column[1] \notin ColSet(table_columns)
    THEN {Caught(AnalysisException)}
    ELSE LET column == lud_column[1]
             counts == GroupCount(table_df, <<column>>)
             ordered_dates == OrderDesc({g[1] : g \in DOMAIN counts})
             ordered_counts == [i \in DOMAIN ordered_dates |->
                                   counts[<<ordered_dates[i]>>]]
             ma == moving_average(ordered_counts, ordered_dates)
         IN  {Stored(IF BelowAcceptable(ma) THEN "Failed" ELSE "Passed",
                     d @@ [moving_average |-> ma]) :
                d \in DensityDetails(column)}

\* lud_density without the early return for an unset lud_column
lud_density_unguarded(fault) == lud_statistics(fault)

lud_density(fault) ==
    IF lud_column = None \/ lud_column = <<"">>
    THEN {[res |-> <<>>, raised |-> NoFault]}
    ELSE lud_statistics(fault)

Outcomes(c, fault) ==
    CASE c = "find_duplicates"    -> find_duplicates(fault)
      [] c = "find_nulls"         -> find_nulls(fault)
      [] c = "check_completeness" -> check_completeness(fault)
      [] c = "values_range"       -> values_range(fault)
      [] c = "key_density"        -> key_density(fault)
      [] c = "lud_density"        -> lud_density(fault)

(***************************************************************************)
(* Construction: __init__, _validate_inputs and _load_table_data.  An      *)
(* input gives the arguments (names_ok: table_schema and table_name are    *)
(* strings; keys_ok: key_columns is a list of strings) and the engine's    *)
(* answer to the load query (load_ok, columns, rows).                      *)
(***************************************************************************)
NoInput ==
    [names_ok |-> TRUE, keys_ok |-> TRUE, key_columns |-> <<>>,
     lud_column |-> None, load_ok |-> TRUE, columns |-> <<>>, rows |-> EmptyBag]

\* the exception _validate_inputs raises, "" if none
validate_inputs(i) ==
    IF ~i.names_ok THEN "ValueError"
    ELSE IF ~i.keys_ok THEN "ValueError"
    ELSE ""

\* _load_table_data without the check of the row count
load_table_data_unchecked(i) ==
    IF ~i.load_ok THEN "RuntimeError" ELSE ""

\* the exception _load_table_data raises, "" if none: any failure of the
\* query, and the ValueError for an empty table, are wrapped alike
load_table_data(i) ==
    IF ~i.load_ok THEN "RuntimeError"
    ELSE IF Count(i.rows) = 0 THEN "RuntimeError"
    ELSE ""

Construct(i) ==
    /\ obj = "none"
    /\ input' = i
    /\ LET e == IF validate_inputs(i) # "" THEN validate_inputs(i)
                ELSE load_table_data(i)
       IN  IF e # ""
           THEN /\ obj' = "failed"
                /\ error' = e
                /\ UNCHANGED <<key_columns, lud_column, table_columns,
                               table_df, table_count>>
           ELSE /\ obj' = "constructed"
                /\ error' = ""
                /\ key_columns' = i.key_columns
                /\ lud_column' = i.lud_column
                /\ table_columns' = i.columns
                /\ table_df' = i.rows
                /\ table_count' = Count(i.rows)
    /\ UNCHANGED <<testing_results, clock, pc, calls, returned, raised, last,
                   reports>>

(***************************************************************************)
(* One execution of a check: it stores at most one result, stamped with a  *)
(* new reading of the clock (successive readings of datetime.now() are     *)
(* taken to differ).                                                       *)
(***************************************************************************)
Put(d, k, v) == [n \in DOMAIN d \cup {k} |-> IF n = k THEN v ELSE d[n]]

\* the key under which a check stores its result
ResultKey(c) == c

Execute(c, fault) ==
    \E o \in Outcomes(c, fault) :
        /\ raised' = [raised EXCEPT ![c] = o.raised]
        /\ last' = c
        /\ IF o.res = <<>>
           THEN UNCHANGED <<testing_results, clock>>
           ELSE /\ clock' = clock + 1
                /\ testing_results' =
                       Put(testing_results, ResultKey(c),
                           create_test_result(o.res[1].status,
                                              o.res[1].details, clock + 1))

\* the order in which run_all_tests calls the checks
test_methods == CheckNames

\* run_all_tests is entered
RunStart(maxCalls) ==
    /\ obj = "constructed" /\ pc = 0 /\ calls < maxCalls
    /\ pc' = 1
    /\ calls' = calls + 1
    /\ UNCHANGED <<obj, error, input, key_columns, lud_column, table_columns,
                   table_df, table_count, testing_results, clock, returned,
                   raised, last, reports>>

\* run_all_tests calls the next check of test_methods
RunStep(c, fault) ==
    /\ pc \in 1..Len(test_methods)
    /\ c = test_methods[pc]
    /\ Execute(c, fault)
    /\ pc' = pc + 1
    /\ UNCHANGED <<obj, error, input, key_columns, lud_column, table_columns,
                   table_df, table_count, calls, returned, reports>>

\* run_all_tests returns self.testing_results, the dict itself
RunReturn ==
    /\ pc = Len(test_methods) + 1
    /\ pc' = 0
    /\ returned' = TRUE
    /\ reports' = Append(reports, testing_results)
    /\ UNCHANGED <<obj, error, input, key_columns, lud_column, table_columns,
                   table_df, table_count, testing_results, clock, calls,
                   raised, last>>

\* a check method is called directly
CallCheck(c, fault, maxCalls) ==
    /\ obj = "constructed" /\ pc = 0 /\ calls < maxCalls
    /\ Execute(c, fault)
    /\ calls' = calls + 1
    /\ UNCHANGED <<obj, error, input, key_columns, lud_column, table_columns,
                   table_df, table_count, pc, returned, reports>>

Init ==
    /\ obj = "none" /\ error = "" /\ input = NoInput
    /\ key_columns = <<>> /\ lud_column = None /\ table_columns = <<>>
    /\ table_df = EmptyBag /\ table_count = 0
    /\ testing_results = <<>> /\ clock = 0 /\ pc = 0 /\ calls = 0
    /\ returned = FALSE /\ raised = NoRaise /\ last = "" /\ reports = <<>>

(***************************************************************************)
(* Spec: construction from every kind of argument and table, then          *)
(* run_all_tests with an engine that may fail the queries of any check.    *)
(***************************************************************************)
MaxRuns == 1

Row(k, t) == [c \in {"k", "t"} |-> IF c = "k" THEN k ELSE t]

Tables ==
    {[columns |-> <<"k", "t">>, rows |-> EmptyBag],
     [columns |-> <<"k", "t">>, rows |-> (Row(1, 1) :> 2)],
     [columns |-> <<"k", "s">>, rows |-> ([c \in {"k", "s"} |-> 1] :> 1)]}

Inputs ==
    {[names_ok |-> n, keys_ok |-> k, key_columns |-> kc, lud_column |-> lc,
      load_ok |-> lo, columns |-> tb.columns, rows |-> tb.rows] :
        n \in BOOLEAN, k \in BOOLEAN, lo \in BOOLEAN,
        kc \in {<<>>, <<"k">>, <<"zz">>},
        lc \in {None, <<"">>, <<"t">>},
        tb \in Tables}

\* the faults the engine may raise from the queries of check c: only
\* values_range tells the exception classes apart
Faults(c) ==
    IF c = "values_range" THEN {NoFault} \cup FaultKinds
    ELSE {NoFault, "Py4JJavaError"}

Next ==
    \/ obj = "none" /\ \E i \in Inputs : Construct(i)
    \/ RunStart(MaxRuns)
    \/ \E c \in ColSet(CheckNames) : \E f \in Faults(c) : RunStep(c, f)
    \/ RunReturn

Spec == Init /\ [][Next]_vars

(***************************************************************************)
(* SpecOps: any sequence of public calls (run_all_tests and the six check  *)
(* methods) on one object, over an unchanged table whose queries all       *)
(* answer.  The table of the first input has two key values with equal     *)
(* counts.                                                                 *)
(***************************************************************************)
MaxOps == 2

OpsInputs ==
    {[names_ok |-> TRUE, keys_ok |-> TRUE, key_columns |-> <<"k">>,
      lud_column |-> lc, load_ok |-> TRUE, columns |-> <<"k", "t">>,
      rows |-> rows] :
        lc \in {None, <<"t">>},
        rows \in {(Row(1, 1) :> 1) @@ (Row(2, 1) :> 1),
                  (Row(1, 1) :> 2) @@ (Row(2, 2) :> 1)}}

NextOps ==
    \/ obj = "none" /\ \E i \in OpsInputs : Construct(i)
    \/ RunStart(MaxOps)
    \/ \E c \in ColSet(CheckNames) : RunStep(c, NoFault)
    \/ RunReturn
    \/ \E c \in ColSet(CheckNames) : CallCheck(c, NoFault, MaxOps)

SpecOps == Init /\ [][NextOps]_vars

(***************************************************************************)
(* SpecKeys: find_duplicates and find_nulls on every table of up to        *)
(* MaxMult copies of each row over the key values {NULL, 1, 2} x {NULL, 1}.*)
(***************************************************************************)
MaxMult == 3

KeyChecks == {"find_duplicates", "find_nulls"}

KeyRows == {Row(k, t) : k \in {Null, 1, 2}, t \in {Null, 1}}

\* the bag in which row r occurs mult[r] times
BagOf(mult) == [r \in {r \in DOMAIN mult : mult[r] > 0} |-> mult[r]]

KeysInputs ==
    {[names_ok |-> TRUE, keys_ok |-> TRUE, key_columns |-> kc,
      lud_column |-> None, load_ok |-> TRUE, columns |-> <<"k", "t">>,
      rows |-> BagOf(mult)] :
        kc \in {<<"k">>, <<"k", "t">>},
        mult \in [KeyRows -> 0..MaxMult]}

NextKeys ==
    \/ obj = "none" /\ \E i \in KeysInputs : Construct(i)
    \/ \E c \in KeyChecks : CallCheck(c, NoFault, Cardinality(KeyChecks))

SpecKeys == Init /\ [][NextKeys]_vars

(***************************************************************************)
(* SpecCompleteness: check_completeness on tables of up to MaxRows rows    *)
(* with one non-key column, up to MaxRowsTwo rows with two, and on a table *)
(* of key columns only, for every number of NULLs in each column.          *)
(***************************************************************************)
MaxRows == 50

MaxRowsTwo == 20

RowV(v) == [c \in {"k", "v"} |-> IF c = "k" THEN 1 ELSE v]

RowVW(v, w) == [c \in {"k", "v", "w"} |-> IF c = "k" THEN 1 ELSE IF c = "v" THEN v ELSE w]

Smaller(a, b) == IF a < b THEN a ELSE b

\* n rows of which nv are NULL in v
TableV(n, nv) ==
    [columns |-> <<"k", "v">>,
     rows |-> BagOf((RowV(Null) :> nv) @@ (RowV(1) :> n - nv))]

\* n rows of which nv are NULL in v and nw are NULL in w
TableVW(n, nv, nw) ==
    [columns |-> <<"k", "v", "w">>,
     rows |-> BagOf((RowVW(Null, Null) :> Smaller(nv, nw))
                    @@ (RowVW(Null, 1) :> nv - Smaller(nv, nw))
                    @@ (RowVW(1, Null) :> nw - Smaller(nv, nw))
                    @@ (RowVW(1, 1) :> n - nv - nw + Smaller(nv, nw)))]

CompletenessTables ==
    {[columns |-> <<"k">>, rows |-> ([c \in {"k"} |-> 1] :> 1)]}
    \cup UNION {{TableV(n, nv) : nv \in 0..n} : n \in 1..MaxRows}
    \cup UNION {{TableVW(n, nv, nw) : nv \in 0..n, nw \in 0..n} :
                   n \in 1..MaxRowsTwo}

CompletenessInputs ==
    {[names_ok |-> TRUE, keys_ok |-> TRUE, key_columns |-> <<"k">>,
      lud_column |-> None, load_ok |-> TRUE, columns |-> tb.columns,
      rows |-> tb.rows] : tb \in CompletenessTables}

NextCompleteness ==
    \/ obj = "none" /\ \E i \in CompletenessInputs : Construct(i)
    \/ CallCheck("check_completeness", NoFault, Len(<<"check_completeness">>))

SpecCompleteness == Init /\ [][NextCompleteness]_vars

(***************************************************************************)
(* SpecLud: lud_density on tables of 1 to LudWindow + 1 dates, each with   *)
(* 1 to MaxCount rows.  The dates before the latest that fall in the       *)
(* window are listed with counts that do not grow with the date; the       *)
(* latest date and the date beyond the window carry any count.             *)
(***************************************************************************)
MaxCount == 3

\* dates 1..n, date d on counts[d] rows
TableLud(counts) == [r \in {Row(1, d) : d \in DOMAIN counts} |-> counts[r["t"]]]

\* the dates of 1..n that precede the latest and lie in the window
PriorDates(n) == {d \in 1..(n - 1) : d > n - LudWindow}

LudCounts(n) ==
    {counts \in [1..n -> 1..MaxCount] :
        \A d \in PriorDates(n) : \A e \in PriorDates(n) :
            d < e => counts[d] >= counts[e]}

LudInputs ==
    {[names_ok |-> TRUE, keys_ok |-> TRUE, key_columns |-> <<"k">>,
      lud_column |-> <<"t">>, load_ok |-> TRUE, columns |-> <<"k", "t">>,
      rows |-> TableLud(counts)] :
        counts \in UNION {LudCounts(n) : n \in 1..(LudWindow + 1)}}

NextLud ==
    \/ obj = "none" /\ \E i \in LudInputs : Construct(i)
    \/ CallCheck("lud_density", NoFault, Len(<<"lud_density">>))

SpecLud == Init /\ [][NextLud]_vars
(***************************************************************************)
(* Properties of construction and of run_all_tests, under Spec.            *)
(***************************************************************************)
RegisteredAlways ==
    {"find_duplicates", "find_nulls", "check_completeness", "values_range",
     "key_density"}

ResultFields == {"status", "timestamp", "details"}

Statuses == {"Passed", "Failed", "Skipped", "Error"}

\* C1: run_all_tests attempts every check in order whatever the checks
\* raise, and a check in which an exception was raised has a result with
\* status 'Error' whose details are the exception's message.
C1_ErrorIsolation ==
    /\ \A c \in ColSet(CheckNames) :
          raised[c] # NoFault =>
              /\ c \in DOMAIN testing_results
              /\ testing_results[c].status = "Error"
              /\ testing_results[c].details = raised[c]
    /\ pc = Len(CheckNames) + 1 => RegisteredAlways \subseteq DOMAIN testing_results

\* a time column was configured (the empty name configures none)
LudConfigured == input.lud_column # None /\ input.lud_column # <<"">>

ExpectedKeys ==
    RegisteredAlways \cup (IF LudConfigured THEN {"lud_density"} ELSE {})

\* C2: the report run_all_tests returns has one result for each of
\* find_duplicates, find_nulls, check_completeness, values_range and
\* key_density, a lud_density result iff a time column was configured, and
\* no other key.
C2_ReportKeys ==
    \A n \in DOMAIN reports :
        /\ DOMAIN reports[n] = ExpectedKeys
        /\ \A c \in ExpectedKeys :
              /\ DOMAIN reports[n][c] = ResultFields
              /\ reports[n][c].status \in Statuses

C2_Witness ==
    /\ Len(reports) >= 1
    /\ input.lud_column = None
    /\ DOMAIN reports[1] = RegisteredAlways

\* C3: construction raises, and no check is executed, whenever the list of
\* key columns is empty or names a column the loaded table does not have.
C3_KeyColumnsRejected ==
    (/\ obj # "none"
     /\ \/ input.key_columns = <<>>
        \/ ~(ColSet(input.key_columns) \subseteq ColSet(input.columns)))
    => obj = "failed" /\ last = "" /\ testing_results = <<>>

\* C4: a load that fails or yields no row aborts construction with the
\* wrapped error, before any check and with no report; a constructed object
\* has a cached row count > 0, and so has every state in which a check has
\* run.
C4_LoadFailureAborts ==
    /\ obj = "constructed" =>
          /\ input.load_ok
          /\ table_count > 0
          /\ table_count = Count(input.rows)
    /\ (/\ obj # "none" /\ input.names_ok /\ input.keys_ok
        /\ (~input.load_ok \/ DOMAIN input.rows = {}))
       => obj = "failed" /\ error = "RuntimeError"
    /\ obj = "failed" =>
          /\ testing_results = <<>> /\ reports = <<>>
          /\ last = "" /\ pc = 0 /\ calls = 0
    /\ (last # "" \/ pc # 0) => table_count > 0

C4_Witness ==
    /\ obj = "failed" /\ error = "RuntimeError"
    /\ input.load_ok /\ DOMAIN input.rows = {}

(***************************************************************************)
(* Properties of the single checks, stated on the table given to the       *)
(* constructor (input.rows), in integer arithmetic.                        *)
(***************************************************************************)
\* the number of rows of the table that satisfy P
RowsWhere(P(_)) ==
    SumOver({r \in DOMAIN input.rows : P(r)}, input.rows)

KeyCombination(r) == [i \in DOMAIN input.key_columns |-> r[input.key_columns[i]]]

\* the key combinations that more than one row has
SharedCombinations ==
    {g \in {KeyCombination(r) : r \in DOMAIN input.rows} :
        \E r1 \in DOMAIN input.rows : \E r2 \in DOMAIN input.rows :
            /\ KeyCombination(r1) = g /\ KeyCombination(r2) = g
            /\ (r1 # r2 \/ input.rows[r1] > 1)}

\* C7: find_duplicates reports the number of distinct key combinations
\* that occur in more than one row (a combination counts once, however
\* many rows share it), and passes iff that number is 0.
C7_DuplicateGroups ==
    "find_duplicates" \in DOMAIN testing_results =>
        /\ testing_results["find_duplicates"].details =
               [duplicated_rows_count |-> Cardinality(SharedCombinations)]
        /\ testing_results["find_duplicates"].status =
               (IF SharedCombinations = {} THEN "Passed" ELSE "Failed")

\* one combination, shared by three copies of a row
C7_Witness ==
    /\ "find_duplicates" \in DOMAIN testing_results
    /\ testing_results["find_duplicates"].details.duplicated_rows_count = 1
    /\ testing_results["find_duplicates"].status = "Failed"
    /\ \E r \in DOMAIN input.rows : input.rows[r] = 3

\* the number of key columns in which row r is NULL
NullKeys(r) == Cardinality({column \in ColSet(input.key_columns) : r[column] = Null})

NullTotal ==
    SumOver(DOMAIN input.rows,
            [r \in DOMAIN input.rows |-> input.rows[r] * NullKeys(r)])

\* C8: find_nulls gives for each key column the number of rows NULL in
\* it, a total in which a row NULL in k key columns counts k times, and
\* passes iff the total is 0.
C8_NullCounts ==
    "find_nulls" \in DOMAIN testing_results =>
        /\ testing_results["find_nulls"].details.nulls_by_column =
               [column \in ColSet(input.key_columns) |->
                   RowsWhere(LAMBDA r : r[column] = Null)]
        /\ testing_results["find_nulls"].details.total_null_count = NullTotal
        /\ testing_results["find_nulls"].status =
               (IF NullTotal = 0 THEN "Passed" ELSE "Failed")

\* a row NULL in both key columns
C8_Witness ==
    /\ "find_nulls" \in DOMAIN testing_results
    /\ input.key_columns = <<"k", "t">>
    /\ DOMAIN input.rows = {Row(Null, Null), Row(1, 1)}
    /\ testing_results["find_nulls"].details.total_null_count =
           2 * input.rows[Row(Null, Null)]

NonKeyColumns == ColSet(input.columns) \ ColSet(input.key_columns)

NullsIn(column) == RowsWhere(LAMBDA r : r[column] = Null)

TotalRows == RowsWhere(LAMBDA r : TRUE)

\* C5: check_completeness is 'Skipped' when every column is a key column;
\* otherwise it is 'Failed' iff some non-key column has
\* null_count * 100 > 5 * row_count, else 'Passed', and each column's
\* detail is the percentage truncated to an integer, followed by '%'.
C5_Completeness ==
    "check_completeness" \in DOMAIN testing_results =>
        IF NonKeyColumns = {}
        THEN testing_results["check_completeness"].status = "Skipped"
        ELSE /\ testing_results["check_completeness"].status =
                    (IF \E column \in NonKeyColumns :
                            NullsIn(column) * Percent > NullThreshold * TotalRows
                     THEN "Failed" ELSE "Passed")
             /\ testing_results["check_completeness"].details =
                    [nulls_percentage_by_column |->
                        [column \in NonKeyColumns |->
                            <<(NullsIn(column) * Percent) \div TotalRows, "%">>]]

\* the dates of the table and, for a rank j, the j-th latest of them
LudDates == {r["t"] : r \in DOMAIN input.rows}

DateAt(j) ==
    CHOOSE d \in LudDates : Cardinality({e \in LudDates : e >= d}) = j

RowsOn(d) == RowsWhere(LAMBDA r : r["t"] = d)

CurrentCount == RowsOn(DateAt(1))

PriorSum == SeqSum([j \in 1..(LudWindow - 1) |-> RowsOn(DateAt(j + 1))])

\* current_count / (PriorSum / 6) < 0.4, in integers
RatioBelow == 5 * (LudWindow - 1) * CurrentCount < 2 * PriorSum

\* C6: with fewer than 7 dates lud_density is 'Failed' and carries the
\* insufficient-data marker; with 7 or more, current_count is the count of
\* the latest date, last_luds_avg the mean of the counts of the dates
\* ranked 2 to 7, and the status is 'Failed' iff
\* current_count / last_luds_avg < 0.4, else 'Passed'.
C6_LudDensity ==
    "lud_density" \in DOMAIN testing_results =>
        IF Cardinality(LudDates) < LudWindow
        THEN /\ testing_results["lud_density"].status = "Failed"
             /\ testing_results["lud_density"].details.moving_average =
                    [error |-> "Insufficient data for moving average calculation"]
        ELSE \E cur \in {CurrentCount} : \E sum \in {PriorSum} :
             \E mean \in {FDiv(FOfInt(sum), FOfInt(LudWindow - 1))} :
             /\ testing_results["lud_density"].details.moving_average.current_count
                    = cur
             /\ testing_results["lud_density"].details.moving_average.last_luds_avg
                    = mean
             /\ testing_results["lud_density"].details.moving_average.ratio_to_average
                    = FDiv(FOfInt(cur), mean)
             /\ testing_results["lud_density"].details.moving_average.dates_analyzed
                    = [current_date |-> DateAt(1),
                       analyzed_dates |->
                           [j \in 1..(LudWindow - 1) |-> DateAt(j + 1)]]
             /\ testing_results["lud_density"].details.moving_average
                    .below_acceptable_average = RatioBelow
             /\ testing_results["lud_density"].status =
                    (IF RatioBelow THEN "Failed" ELSE "Passed")

\* a ratio of exactly 0.4 over more dates than the window
C6_Witness ==
    /\ "lud_density" \in DOMAIN testing_results
    /\ Cardinality(LudDates) = LudWindow + 1
    /\ 5 * (LudWindow - 1) * CurrentCount = 2 * PriorSum
    /\ testing_results["lud_density"].status = "Passed"

(***************************************************************************)
(* Properties of sequences of calls on one object, under SpecOps.          *)
(***************************************************************************)
Untimed(report) ==
    [c \in DOMAIN report |->
        [status |-> report[c].status, details |-> report[c].details]]

\* C9: two runs of run_all_tests on the same table give the same status
\* and the same details for every check.
C9_Idempotent ==
    Len(reports) >= 2 => Untimed(reports[1]) = Untimed(reports[2])

\* C10: an entry of the report map, once inserted, is never replaced or
\* changed by a later operation, and so neither is the map a caller was
\* returned.
C10_ResultsImmutable ==
    [][\A c \in DOMAIN testing_results :
          /\ c \in DOMAIN testing_results'
          /\ testing_results'[c] = testing_results[c]]_vars

====
